---- MODULE Spec2Model ----
(***************************************************************************)
(* JacareFinder: the App component (src/types.ts, lines 21-289), the       *)
(* searchMusic service (src/services/geminiService.ts) and the             *)
(* AudioRecorder component (src/components/AudioRecorder.tsx).             *)
(*                                                                         *)
(* The specifications share the variables:                                 *)
(*   SpecFavorites   the favorites list and its localStorage persistence   *)
(*   SpecSearch      handleSearch / searchMusic / clearAll                 *)
(*   SpecSearchLive  SpecSearch, with every pending remote call settling   *)
(*   SpecRecorder    the AudioRecorder component mounted inside App        *)
(***************************************************************************)
EXTENDS Integers, Sequences, FiniteSets, TLC

VARIABLES
    started,          \* the page is loaded and App has rendered once
    crashed,          \* a render or a state updater threw: React unmounted the tree
    searchText,       \* App: useState('')
    audioData,        \* App: useState<{base64, mimeType} | null>(null)
    activeTab,        \* App: useState<'search' | 'favorites'>('search')
    state,            \* App: useState<SearchState>
    favorites,        \* App: useState<Song[]>, as the JS value it holds
    storage,          \* localStorage['jacareFavorites']
    inflight,         \* requests handed to ai.models.generateContent, not yet settled
    remoteCalls,      \* number of calls of ai.models.generateContent
    uuidCount,        \* number of crypto.randomUUID() values drawn
    response,         \* searchMusic: how the last awaited generateContent settled
    gen,              \* which mount of <AudioRecorder key=...> is the live one
    status,           \* AudioRecorder: useState<RecorderStatus>
    timer,            \* AudioRecorder: useState(0)
    mediaRecorderRef, \* AudioRecorder: useRef<MediaRecorder | null>
    chunksRef,        \* AudioRecorder: useRef<Blob[]>, one per mount
    timerIntervalRef, \* AudioRecorder: useRef<number | null>
    sessions          \* every startRecording() call: its stream, recorder, interval

appVars == <<searchText, audioData, activeTab, state>>
favVars == <<favorites, storage>>
remoteVars == <<inflight, remoteCalls, uuidCount, response>>
recVars == <<gen, status, timer, mediaRecorderRef, chunksRef, timerIntervalRef, sessions>>
vars == <<started, crashed, appVars, favVars, remoteVars, recVars>>

(***************************************************************************)
(* Bounds of the model.                                                    *)
(***************************************************************************)
NumSongIds == 3     \* identifiers of the songs the user can toggle
MaxBatch == 2       \* records in one response of the remote service
MaxCalls == 2       \* calls of the remote service in one run
MaxSessions == 2    \* startRecording() calls in one run
MaxTimer == 2       \* ticks counted by one mount of the recorder

(***************************************************************************)
(* JS values held by `favorites`, and the text held by localStorage.       *)
(***************************************************************************)
Titles == {"Time", "Yesterday"}

LongIds == <<"song-0001", "abcdef", "track-7", "melody-42">>

SongIds == {LongIds[i] : i \in 1..NumSongIds}

SongPool == [id : SongIds, titulo : Titles]

JsArray(items) == [kind |-> "array", items |-> items]

JsNull == [kind |-> "null", items |-> <<>>]

JsObject == [kind |-> "object", items |-> <<>>]

\* localStorage.getItem returns null for a key never written
NoItem == [valid |-> FALSE, kind |-> "absent", entries |-> <<>>]

\* a stored string that JSON.parse rejects
Garbage == [valid |-> FALSE, kind |-> "garbage", entries |-> <<>>]

SongText(s) == <<"id", s.id, "titulo", s.titulo>>

ParseSong(t) == [id |-> t[2], titulo |-> t[4]]

\* JSON.stringify(favorites)
Stringify(v) ==
    [valid |-> TRUE, kind |-> v.kind,
     entries |-> [i \in 1..Len(v.items) |-> SongText(v.items[i])]]

\* JSON.parse(saved), for a text it accepts
JSONParse(t) ==
    [kind |-> t.kind, items |-> [i \in 1..Len(t.entries) |-> ParseSong(t.entries[i])]]

\* the initializer of useState<Song[]>: saved ? JSON.parse(saved) : [], [] on a throw
LoadFavorites(saved) ==
    IF saved.kind = "absent" THEN JsArray(<<>>)
    ELSE IF ~saved.valid THEN JsArray(<<>>)
    ELSE JSONParse(saved)

\* what the page may find in localStorage when it is first opened
BootStorage == {NoItem, Garbage, Stringify(JsNull), Stringify(JsObject)}

\* App's render reads favorites.length: a TypeError when favorites is null
RenderThrows(fav, tab) ==
    \/ fav.kind = "null"
    \/ fav.kind = "object" /\ tab = "favorites"   \* renderSongList: songs.map

\* prev.filter(f => f.id !== id)
RemoveId(prev, id) ==
    LET F[i \in 0..Len(prev)] ==
            IF i = 0 THEN <<>>
            ELSE IF prev[i].id # id THEN Append(F[i - 1], prev[i]) ELSE F[i - 1]
    IN F[Len(prev)]

ToggleAlwaysAppend(prev, song) == Append(prev, song)

ToggleInsertFront(prev, song) ==
    IF \E i \in 1..Len(prev) : prev[i].id = song.id
    THEN RemoveId(prev, song.id)
    ELSE <<song>> \o prev

\* the updater of toggleFavorite, on a list
Toggle(prev, song) ==
    IF \E i \in 1..Len(prev) : prev[i].id = song.id
    THEN RemoveId(prev, song.id)
    ELSE Append(prev, song)

EmptyState == [isLoading |-> FALSE, error |-> "null", results |-> <<>>]

NoAudio == [present |-> FALSE, base64 |-> <<>>, mimeType |-> ""]


NoSession == [phase |-> "none", inst |-> 0, streamOpen |-> FALSE,
              interval |-> FALSE, blob |-> <<>>]

NoResponse == [kind |-> "none", value |-> [kind |-> "null", items |-> <<>>]]

\* the values the useState / useRef initializers give
AppInit ==
    /\ searchText = <<>>
    /\ audioData = NoAudio
    /\ activeTab = "search"
    /\ state = EmptyState

RemoteInit ==
    /\ inflight = <<>>
    /\ remoteCalls = 0
    /\ uuidCount = 0
    /\ response = NoResponse

RecorderInit ==
    /\ gen = 1
    /\ status = "idle"
    /\ timer = 0
    /\ mediaRecorderRef = 0
    /\ chunksRef = << <<>> >>
    /\ timerIntervalRef = 0
    /\ sessions = [s \in 1..MaxSessions |-> NoSession]

(***************************************************************************)
(* The recorder as App renders it: <AudioRecorder key={audioData ?         *)
(* 'has-audio' : 'no-audio'} />.  A changed key unmounts the component and  *)
(* mounts a fresh one.                                                      *)
(***************************************************************************)
LivePhases == {"pending", "recording", "stopping"}

\* sessions of mount g whose callbacks can still touch that mount's refs
LiveOf(sess, g) == {s \in DOMAIN sess : sess[s].inst = g /\ sess[s].phase \in LivePhases}

\* the unmount cleanup: clearInterval(timerIntervalRef.current)
Cleanup(sess) ==
    IF timerIntervalRef = 0 THEN sess
    ELSE [sess EXCEPT ![timerIntervalRef].interval = FALSE]

\* the recorder is unmounted (cleanup runs) and a fresh one takes its place.
\* The number of a mount is reused when nothing of the old mount is left that
\* could still act on it.
Remount(sess) ==
    /\ status' = "idle"
    /\ timer' = 0
    /\ mediaRecorderRef' = 0
    /\ timerIntervalRef' = 0
    /\ IF LiveOf(Cleanup(sess), gen) = {}
       THEN /\ gen' = gen
            /\ chunksRef' = [chunksRef EXCEPT ![gen] = <<>>]
            /\ sessions' = [s \in DOMAIN sess |->
                               IF sess[s].inst = gen
                               THEN [Cleanup(sess)[s] EXCEPT !.inst = 0]
                               ELSE Cleanup(sess)[s]]
       ELSE /\ gen' = gen + 1
            /\ chunksRef' = Append(chunksRef, <<>>)
            /\ sessions' = Cleanup(sess)

\* the render after a handler left audioData = newAudio and the mounted recorder
\* with status st, timer tm, chunks ch, and the sessions sess: a changed key
\* re-mounts the recorder
RenderRecorder(newAudio, st, tm, ch, sess) ==
    IF newAudio.present = audioData.present
    THEN /\ status' = st
         /\ timer' = tm
         /\ chunksRef' = [chunksRef EXCEPT ![gen] = ch]
         /\ sessions' = sess
         /\ UNCHANGED <<gen, mediaRecorderRef, timerIntervalRef>>
    ELSE Remount(sess)

(***************************************************************************)
(* Favorites: load on mount, toggle, persist effect.                       *)
(***************************************************************************)

\* the page is not open yet; localStorage holds what an earlier run or anything
\* else left under the key
InitFavorites ==
    /\ started = FALSE
    /\ crashed = FALSE
    /\ storage \in BootStorage
    /\ favorites = JsArray(<<>>)
    /\ AppInit /\ RemoteInit /\ RecorderInit

\* first render of App: the favorites initializer, then the persist effect
\* (which runs only when the render committed)
Mount ==
    /\ ~started
    /\ started' = TRUE
    /\ favorites' = LoadFavorites(storage)
    /\ crashed' = RenderThrows(favorites', "search")
    /\ storage' = IF crashed' THEN storage ELSE Stringify(favorites')
    /\ UNCHANGED <<appVars, remoteVars, recVars>>

\* the persist effect left out
ToggleFavoriteNoPersist(song) ==
    /\ started /\ ~crashed
    /\ favorites.kind = "array"
    /\ favorites' = JsArray(Toggle(favorites.items, song))
    /\ UNCHANGED <<started, crashed, storage, appVars, remoteVars, recVars>>

\* the heart button of a displayed song: toggleFavorite, the re-render, and the
\* persist effect the changed favorites triggers
ToggleFavorite(song) ==
    /\ started /\ ~crashed
    /\ IF favorites.kind = "array"
       THEN /\ favorites' = JsArray(Toggle(favorites.items, song))
            /\ storage' = Stringify(favorites')
            /\ crashed' = FALSE
       ELSE /\ crashed' = TRUE          \* prev.some is not a function
            /\ UNCHANGED <<favorites, storage>>
    /\ UNCHANGED <<started, appVars, remoteVars, recVars>>

\* the Search / Favorites tab buttons
SetActiveTab(tab) ==
    /\ started /\ ~crashed
    /\ activeTab # tab
    /\ activeTab' = tab
    /\ crashed' = RenderThrows(favorites, tab)
    /\ IF tab = "favorites"
       THEN Remount(sessions)      \* the search tab's subtree is unmounted
       ELSE UNCHANGED recVars      \* a fresh AudioRecorder is mounted
    /\ UNCHANGED <<started, searchText, audioData, state, favVars, remoteVars>>

\* the user closes or reloads the page: only localStorage survives
Reload ==
    /\ started
    /\ started' = FALSE
    /\ crashed' = FALSE
    /\ favorites' = JsArray(<<>>)
    /\ activeTab' = "search"
    /\ UNCHANGED <<searchText, audioData, state, storage, remoteVars, recVars>>

NextFavorites ==
    \/ Mount
    \/ \E song \in SongPool : ToggleFavorite(song)
    \/ \E tab \in {"search", "favorites"} : SetActiveTab(tab)
    \/ Reload

SpecFavorites == InitFavorites /\ [][NextFavorites]_vars


(***************************************************************************)
(* Claims about the favorites (SpecFavorites).                             *)
(***************************************************************************)
IdsOf(items) == {items[i].id : i \in 1..Len(items)}

FavIsList == started /\ ~crashed /\ favorites.kind = "array"

TwiceToggled(song) == Toggle(Toggle(favorites.items, song), song)

\* a song that is an entry of the list, or one whose identifier no entry has
MemberOrStranger(song) ==
    \/ \E i \in 1..Len(favorites.items) : favorites.items[i] = song
    \/ song.id \notin IdsOf(favorites.items)

\* C7 as stated: toggling a song twice, whether or not it is in the list and at
\* whatever position, gives back exactly the same list, same members in the same
\* order.
C7_ToggleTwiceIsIdentity ==
    FavIsList =>
        \A song \in SongPool :
            MemberOrStranger(song) => TwiceToggled(song) = favorites.items

\* C7 amended: toggling a song twice keeps the set of identifiers; the list is
\* unchanged when no entry has the song's identifier, and otherwise the entries
\* with that identifier are removed, the others keep their order, and the toggled
\* song is appended at the end.
C7_ToggleTwiceMovesToEnd ==
    FavIsList =>
        \A song \in SongPool :
            /\ IdsOf(TwiceToggled(song)) = IdsOf(favorites.items)
            /\ song.id \notin IdsOf(favorites.items)
                   => TwiceToggled(song) = favorites.items
            /\ song.id \in IdsOf(favorites.items)
                   => TwiceToggled(song) =
                          Append(RemoveId(favorites.items, song.id), song)

\* a favorite that is not the last entry is toggled twice and ends up last
C7_Witness ==
    /\ FavIsList
    /\ Len(favorites.items) >= 2
    /\ TwiceToggled(favorites.items[1]) # favorites.items
    /\ TwiceToggled(favorites.items[1])[Len(favorites.items)] = favorites.items[1]

NoDuplicateIds ==
    \A i, j \in 1..Len(favorites.items) :
        i # j => favorites.items[i].id # favorites.items[j].id

\* the entries of old that occur in new, in the order they have in old
KeptOf(old, new) ==
    LET F[i \in 0..Len(old)] ==
            IF i = 0 THEN <<>>
            ELSE IF \E k \in 1..Len(new) : new[k] = old[i]
                 THEN Append(F[i - 1], old[i]) ELSE F[i - 1]
    IN F[Len(old)]

\* the entries of the old list that remain are a prefix of the new list, in their
\* old order, and whatever follows them is new
KeepsInsertionOrder ==
    LET old == favorites.items
        new == favorites'.items
        kept == KeptOf(old, new)
    IN /\ Len(kept) <= Len(new)
       /\ SubSeq(new, 1, Len(kept)) = kept
       /\ \A i \in (Len(kept) + 1)..Len(new) :
              \A j \in 1..Len(old) : old[j] # new[i]

\* what a mount has to load: the stored entries, in the stored order
LoadsStoredOrder ==
    (storage.valid /\ storage.kind = "array")
        => /\ Len(favorites'.items) = Len(storage.entries)
           /\ \A i \in 1..Len(storage.entries) :
                  SongText(favorites'.items[i]) = storage.entries[i]

\* C8: after any sequence of toggles on the favorites loaded at startup no two
\* entries share an identifier, and the remaining entries are in insertion order
\* (a toggle keeps the relative order of what stays and appends what it adds; a
\* reload brings the entries back in the stored order).
C8_NoDuplicatesInsertionOrder ==
    /\ [](started => NoDuplicateIds)
    /\ [][(started /\ started' => KeepsInsertionOrder)
          /\ (~started /\ started' => LoadsStoredOrder)]_vars

\* several favorites, after at least one reload of a non-empty stored list
C8_Witness ==
    /\ FavIsList
    /\ Len(favorites.items) = NumSongIds
    /\ storage.entries # <<>>

\* C9: the stored value is always the serialization of the current favorites, so
\* reloading gives the same list back; a toggle that adds a song leaves it in the
\* list a reload would read.
C9_PersistedAfterEveryToggle ==
    /\ [](started => /\ storage = Stringify(favorites)
                     /\ favorites.kind = "array" => LoadFavorites(storage) = favorites)
    /\ [][\A song \in SongPool :
             (FavIsList /\ started' /\ song.id \notin IdsOf(favorites.items)
                  /\ \E k \in 1..Len(favorites'.items) : favorites'.items[k] = song)
              => \E i \in 1..Len(LoadFavorites(storage').items) :
                     LoadFavorites(storage').items[i] = song]_vars

\* a song has been added and is in the stored value
C9_Witness ==
    /\ FavIsList
    /\ Len(favorites.items) >= 1
    /\ Len(storage.entries) = Len(favorites.items)

StoredAbsentOrCorrupt == ~storage.valid \/ storage.kind # "array"

\* C10: a mount that finds the stored value absent or corrupt (unparseable, or
\* JSON that is not a list) ends with favorites the empty list, and no mount
\* crashes or leaves favorites a non-list.
C10_LoadDegradesToEmpty ==
    [][(~started /\ started')
          => /\ ~crashed'
             /\ favorites'.kind = "array"
             /\ StoredAbsentOrCorrupt => favorites'.items = <<>>]_vars


(***************************************************************************)
(* Search: handleSearch, searchMusic, ID normalization, clearAll.          *)
(***************************************************************************)

\* a text is the sequence of its characters
Texts == {<<>>, <<" ">>, <<"s", "a", "d">>}

RECURSIVE TrimStart(_)
TrimStart(t) == IF t # <<>> /\ Head(t) = " " THEN TrimStart(Tail(t)) ELSE t

RECURSIVE TrimEnd(_)
TrimEnd(t) ==
    IF t # <<>> /\ t[Len(t)] = " " THEN TrimEnd(SubSeq(t, 1, Len(t) - 1)) ELSE t

\* String.prototype.trim
Trim(t) == TrimEnd(TrimStart(t))

\* what FileReader can hand over as base64String: "" for an empty blob
Base64Inputs == {<<>>, <<"AAAA">>}

Payload(base64, mimeType) == [present |-> TRUE, base64 |-> base64, mimeType |-> mimeType]

ValidationMsg == "Please describe a song or record audio first."

FailMsg == "Failed to search for music. Please try again."

TypeErrorMsg == "TypeError"

\* the new search forgets to set the loading flag
LoadingStateFlagUnset == [isLoading |-> FALSE, error |-> "null", results |-> <<>>]

LoadingState == [isLoading |-> TRUE, error |-> "null", results |-> <<>>]

\* what the remote service can put into one element of its JSON array
RawIds == {"", "abcde", "abcdef"}

RawRecords ==
    {[isNull |-> TRUE, hasId |-> FALSE, id |-> "", titulo |-> "Time"],
     [isNull |-> FALSE, hasId |-> FALSE, id |-> "", titulo |-> "Yesterday"]}
        \cup [isNull : {FALSE}, hasId : {TRUE}, id : RawIds, titulo : {"Time"}]

RawBatches == UNION {[1..n -> RawRecords] : n \in 0..MaxBatch}

\* how a call of ai.models.generateContent can settle
Responses ==
    {[kind |-> k, value |-> JsNull] : k \in {"reject", "empty", "nonjson"}}
        \cup {[kind |-> "json", value |-> v] : v \in {JsNull, JsObject}}
        \cup {[kind |-> "json", value |-> JsArray(b)] : b \in RawBatches}

\* the n-th value crypto.randomUUID() returns
UUID(n) == "uuid-" \o ToString(n)

KeepsIdAtLeast5(r) == r.hasId /\ Len(r.id) >= 5

\* r.id && r.id.length > 5
KeepsId(r) == r.hasId /\ Len(r.id) > 5

\* number of randomUUID() calls map makes on raw[1..k]
Drawn(raw, k) == Cardinality({i \in 1..k : ~KeepsId(raw[i])})

\* rawResults.map(r => ({...r, id: ...})), with n UUIDs drawn before
NormalizeIds(raw, n) ==
    [i \in 1..Len(raw) |->
        [id |-> IF KeepsId(raw[i]) THEN raw[i].id ELSE UUID(n + Drawn(raw, i)),
         titulo |-> raw[i].titulo]]

\* index of the first null element (r.id throws there), 0 when there is none
FirstNull(raw) ==
    IF \E i \in 1..Len(raw) : raw[i].isNull
    THEN CHOOSE i \in 1..Len(raw) :
             raw[i].isNull /\ \A j \in 1..(i - 1) : ~raw[j].isNull
    ELSE 0

\* which of the three promptText templates searchMusic picks (null and "" are
\* both falsy, and both are the empty sequence here)
PromptKind(text, audioBase64) ==
    IF audioBase64 # <<>> /\ text # <<>> THEN "audio+text"
    ELSE IF audioBase64 # <<>> THEN "audio"
    ELSE "text"

\* the request searchMusic hands to generateContent
Request(text, audioBase64, mimeType) ==
    [prompt |-> PromptKind(text, audioBase64),
     text |-> IF PromptKind(text, audioBase64) = "audio" THEN <<>> ELSE text,
     inline |-> audioBase64 # <<>>,
     mimeType |-> IF audioBase64 # <<>> THEN mimeType ELSE "",
     data |-> audioBase64]

\* generateContent's rejection swallowed: an empty list instead of a throw
SearchMusicResultSwallows(resp) ==
    IF resp.kind \in {"reject", "nonjson", "empty"}
    THEN [ok |-> TRUE, value |-> JsArray(<<>>), message |-> ""]
    ELSE [ok |-> TRUE, value |-> resp.value, message |-> ""]

\* what searchMusic resolves or rejects with, given how the call settled
SearchMusicResult(resp) ==
    IF resp.kind \in {"reject", "nonjson"}
    THEN [ok |-> FALSE, value |-> JsNull, message |-> FailMsg]
    ELSE IF resp.kind = "empty"
    THEN [ok |-> TRUE, value |-> JsArray(<<>>), message |-> ""]
    ELSE [ok |-> TRUE, value |-> resp.value, message |-> ""]

\* the catch branch forgets to clear the loading flag
TerminalStateKeepsLoading(res, n) ==
    IF ~res.ok \/ res.value.kind # "array" \/ FirstNull(res.value.items) # 0
    THEN [isLoading |-> TRUE, error |-> FailMsg, results |-> <<>>]
    ELSE [isLoading |-> FALSE, error |-> "null",
          results |-> NormalizeIds(res.value.items, n)]

\* the SearchState handleSearch sets after the await, with n UUIDs drawn before
TerminalState(res, n) ==
    IF ~res.ok
    THEN [isLoading |-> FALSE, error |-> res.message, results |-> <<>>]
    ELSE IF res.value.kind # "array" \/ FirstNull(res.value.items) # 0
    THEN [isLoading |-> FALSE, error |-> TypeErrorMsg, results |-> <<>>]
    ELSE [isLoading |-> FALSE, error |-> "null",
          results |-> NormalizeIds(res.value.items, n)]

\* randomUUID() calls made by the map before it finished or threw
UuidsDrawn(res) ==
    IF ~res.ok \/ res.value.kind # "array" THEN 0
    ELSE IF FirstNull(res.value.items) # 0
    THEN Drawn(res.value.items, FirstNull(res.value.items) - 1)
    ELSE Drawn(res.value.items, Len(res.value.items))


(***************************************************************************)
(* The handlers of App.                                                    *)
(***************************************************************************)
FailsValidationNoTrim(text, audio) == text = <<>> /\ ~audio.present

\* !searchText.trim() && !audioData
FailsValidation(text, audio) == Trim(text) = <<>> /\ ~audio.present

\* audioData?.base64 || null, null and "" both being the empty sequence
AudioBase64(audio) == IF audio.present THEN audio.base64 ELSE <<>>

\* audioData?.mimeType, with the default of searchMusic's parameter for undefined
AudioMimeType(audio) == IF audio.present THEN audio.mimeType ELSE "audio/webm"

\* searchText.length > 0 || audioData !== null || state.results.length > 0
hasContent == Len(searchText) > 0 \/ audioData.present \/ Len(state.results) > 0

\* the textarea's onChange
SetSearchText(t) ==
    /\ started /\ ~crashed
    /\ activeTab = "search"
    /\ t # searchText
    /\ searchText' = t
    /\ UNCHANGED <<started, crashed, audioData, activeTab, state, favVars, remoteVars, recVars>>

\* the new search sets the loading flag and clears the error, keeping the results
HandleSearchKeepsResults ==
    /\ started /\ ~crashed
    /\ activeTab = "search"
    /\ ~state.isLoading
    /\ IF FailsValidation(searchText, audioData)
       THEN /\ state' = [state EXCEPT !.error = ValidationMsg]
            /\ UNCHANGED <<activeTab, remoteVars>>
       ELSE /\ remoteCalls < MaxCalls
            /\ state' = [state EXCEPT !.isLoading = TRUE, !.error = "null"]
            /\ activeTab' = "search"
            /\ inflight' = Append(inflight,
                   Request(searchText, AudioBase64(audioData), AudioMimeType(audioData)))
            /\ remoteCalls' = remoteCalls + 1
            /\ response' = NoResponse
            /\ UNCHANGED uuidCount
    /\ UNCHANGED <<started, crashed, searchText, audioData, favVars, recVars>>

\* the Find Music button is not disabled while a search is loading
HandleSearchUngated ==
    /\ started /\ ~crashed
    /\ activeTab = "search"
    /\ IF FailsValidation(searchText, audioData)
       THEN /\ state' = [state EXCEPT !.error = ValidationMsg]
            /\ UNCHANGED <<activeTab, remoteVars>>
       ELSE /\ remoteCalls < MaxCalls
            /\ state' = LoadingState
            /\ activeTab' = "search"
            /\ inflight' = Append(inflight,
                   Request(searchText, AudioBase64(audioData), AudioMimeType(audioData)))
            /\ remoteCalls' = remoteCalls + 1
            /\ response' = NoResponse
            /\ UNCHANGED uuidCount
    /\ UNCHANGED <<started, crashed, searchText, audioData, favVars, recVars>>

\* the Find Music button (disabled while loading): handleSearch up to its await,
\* which includes searchMusic up to the call of generateContent
HandleSearch ==
    /\ started /\ ~crashed
    /\ activeTab = "search"
    /\ ~state.isLoading
    /\ IF FailsValidation(searchText, audioData)
       THEN /\ state' = [state EXCEPT !.error = ValidationMsg]
            /\ UNCHANGED <<activeTab, remoteVars>>
       ELSE /\ remoteCalls < MaxCalls
            /\ state' = LoadingState
            /\ activeTab' = "search"
            /\ inflight' = Append(inflight,
                   Request(searchText, AudioBase64(audioData), AudioMimeType(audioData)))
            /\ remoteCalls' = remoteCalls + 1
            /\ response' = NoResponse      \* the new call has no response yet
            /\ UNCHANGED uuidCount
    /\ UNCHANGED <<started, crashed, searchText, audioData, favVars, recVars>>

\* the i-th pending call of generateContent settles with resp: the rest of
\* searchMusic, then the rest of handleSearch
RemoteSettle(i, resp) ==
    /\ started /\ ~crashed
    /\ i \in 1..Len(inflight)
    /\ inflight' = SubSeq(inflight, 1, i - 1) \o SubSeq(inflight, i + 1, Len(inflight))
    /\ response' = resp
    /\ state' = TerminalState(SearchMusicResult(resp), uuidCount)
    /\ uuidCount' = uuidCount + UuidsDrawn(SearchMusicResult(resp))
    /\ UNCHANGED <<started, crashed, searchText, audioData, activeTab, favVars,
                   remoteCalls, recVars>>

\* handleAudioComplete (the recorder's onRecordingComplete) and the render after
\* it, for the recorder's sessions left as sess
AudioComplete(base64, mimeType, sess) ==
    /\ audioData' = Payload(base64, mimeType)
    /\ RenderRecorder(Payload(base64, mimeType), status, timer, chunksRef[gen], sess)

\* a recording made by the recorder arrives
HandleAudioComplete(base64, mimeType) ==
    /\ started /\ ~crashed
    /\ AudioComplete(base64, mimeType, sessions)
    /\ UNCHANGED <<started, crashed, searchText, activeTab, state, favVars, remoteVars>>

\* the Clear All button (shown when there is content and no search is loading)
ClearAll ==
    /\ started /\ ~crashed
    /\ activeTab = "search"
    /\ hasContent /\ ~state.isLoading
    /\ searchText' = <<>>
    /\ audioData' = NoAudio
    /\ state' = EmptyState
    /\ RenderRecorder(NoAudio, status, timer, chunksRef[gen], sessions)
    /\ UNCHANGED <<started, crashed, activeTab, favVars, remoteVars>>

\* the page is open with nothing stored and nothing typed
InitSearch ==
    /\ started = TRUE
    /\ crashed = FALSE
    /\ favorites = JsArray(<<>>)
    /\ storage = Stringify(JsArray(<<>>))
    /\ AppInit /\ RemoteInit /\ RecorderInit

NextSearch ==
    \/ \E t \in Texts : SetSearchText(t)
    \/ \E b \in Base64Inputs : HandleAudioComplete(b, "audio/webm")
    \/ HandleSearch
    \/ \E i \in 1..MaxCalls, resp \in Responses : RemoteSettle(i, resp)
    \/ ClearAll

SpecSearch == InitSearch /\ [][NextSearch]_vars

\* a pending call of generateContent settles sooner or later (it resolves, or
\* the transport gives up and it rejects)
SpecSearchLive ==
    SpecSearch /\ WF_vars(\E i \in 1..MaxCalls, resp \in Responses : RemoteSettle(i, resp))


(***************************************************************************)
(* The handlers and callbacks of AudioRecorder.                            *)
(***************************************************************************)
FreeSessions == {s \in DOMAIN sessions : sessions[s].phase = "none"}

\* the data one MediaRecorder hands to ondataavailable
ChunkOf(s) == "chunk-" \o ToString(s)

\* FileReader.readAsDataURL: the media type, a comma, the base64 text
DataURL(blob) == <<"data:audio/webm;base64", [i \in 1..Len(blob) |-> "b64:" \o blob[i]]>>

\* (reader.result as string).split(',')[1]
Base64String(blob) == DataURL(blob)[2]

\* the microphone button (shown while status is idle): startRecording up to its
\* await of getUserMedia
StartClick ==
    /\ started /\ ~crashed
    /\ activeTab = "search"
    /\ status = "idle"
    /\ FreeSessions # {}
    /\ LET s == CHOOSE x \in FreeSessions : \A y \in FreeSessions : x <= y
       IN sessions' = [sessions EXCEPT ![s] =
                          [NoSession EXCEPT !.phase = "pending", !.inst = gen]]
    /\ UNCHANGED <<started, crashed, appVars, favVars, remoteVars,
                   gen, status, timer, mediaRecorderRef, chunksRef, timerIntervalRef>>

\* getUserMedia resolves: the rest of startRecording.  The refs written are those
\* of the mount that made the call; setStatus and setTimer do nothing once that
\* mount is gone.
Grant(s) ==
    /\ started /\ ~crashed
    /\ sessions[s].phase = "pending"
    /\ sessions' = [sessions EXCEPT ![s].phase = "recording",
                                    ![s].streamOpen = TRUE,
                                    ![s].interval = TRUE]
    /\ chunksRef' = [chunksRef EXCEPT ![sessions[s].inst] = <<>>]
    /\ IF sessions[s].inst = gen
       THEN /\ mediaRecorderRef' = s
            /\ status' = "recording"
            /\ timer' = 0
            /\ timerIntervalRef' = s
       ELSE UNCHANGED <<mediaRecorderRef, status, timer, timerIntervalRef>>
    /\ UNCHANGED <<started, crashed, appVars, favVars, remoteVars, gen>>

\* the catch of startRecording also ends the recording state
DenySetsFinished(s) ==
    /\ started /\ ~crashed
    /\ sessions[s].phase = "pending"
    /\ sessions' = [sessions EXCEPT ![s].phase = "denied"]
    /\ status' = IF sessions[s].inst = gen THEN "finished" ELSE status
    /\ UNCHANGED <<started, crashed, appVars, favVars, remoteVars,
                   gen, timer, mediaRecorderRef, chunksRef, timerIntervalRef>>

\* getUserMedia rejects: the catch of startRecording shows the alert
Deny(s) ==
    /\ started /\ ~crashed
    /\ sessions[s].phase = "pending"
    /\ sessions' = [sessions EXCEPT ![s].phase = "denied"]
    /\ UNCHANGED <<started, crashed, appVars, favVars, remoteVars,
                   gen, status, timer, mediaRecorderRef, chunksRef, timerIntervalRef>>

\* the stop button (shown while status is recording): stopRecording
StopClick ==
    /\ started /\ ~crashed
    /\ activeTab = "search"
    /\ status = "recording"
    /\ IF mediaRecorderRef # 0
       THEN /\ status' = "finished"
            /\ sessions' =
                   [s \in DOMAIN sessions |->
                       [sessions[s] EXCEPT
                           !.phase = IF s = mediaRecorderRef /\ @ = "recording"
                                     THEN "stopping" ELSE @,
                           !.interval = IF s = timerIntervalRef THEN FALSE ELSE @]]
       ELSE UNCHANGED <<status, sessions>>
    /\ UNCHANGED <<started, crashed, appVars, favVars, remoteVars,
                   gen, timer, mediaRecorderRef, chunksRef, timerIntervalRef>>

\* what MediaRecorder.stop() queues: ondataavailable with what was captured
\* (size bytes), then onstop, which builds the blob from the chunks of its
\* mount, starts the FileReader and stops the tracks of the stream
Finalize(s, size) ==
    /\ started /\ ~crashed
    /\ sessions[s].phase = "stopping"
    /\ LET g == sessions[s].inst
           chunks == IF size > 0 THEN Append(chunksRef[g], ChunkOf(s)) ELSE chunksRef[g]
       IN /\ chunksRef' = [chunksRef EXCEPT ![g] = chunks]
          /\ sessions' = [sessions EXCEPT ![s].phase = "encoding",
                                          ![s].blob = chunks,
                                          ![s].streamOpen = FALSE]
    /\ UNCHANGED <<started, crashed, appVars, favVars, remoteVars,
                   gen, status, timer, mediaRecorderRef, timerIntervalRef>>

\* reader.onloadend: onRecordingComplete(base64String, blob.type)
LoadEnd(s) ==
    /\ started /\ ~crashed
    /\ sessions[s].phase = "encoding"
    /\ AudioComplete(Base64String(sessions[s].blob), "audio/webm",
                     [sessions EXCEPT ![s].phase = "done"])
    /\ UNCHANGED <<started, crashed, searchText, activeTab, state, favVars, remoteVars>>

\* the Discard button (shown while status is finished): clearRecording, whose
\* onClear is App's handleClearAudio
DiscardClick ==
    /\ started /\ ~crashed
    /\ activeTab = "search"
    /\ status = "finished"
    /\ audioData' = NoAudio
    /\ RenderRecorder(NoAudio, "idle", 0, <<>>, sessions)
    /\ UNCHANGED <<started, crashed, searchText, activeTab, state, favVars, remoteVars>>

\* the interval of session s fires: setTimer(prev => prev + 1), which reaches a
\* recorder only while the mount that started the interval is the live one
Tick(s) ==
    /\ started /\ ~crashed
    /\ sessions[s].interval
    /\ sessions[s].inst = gen
    /\ timer < MaxTimer
    /\ timer' = timer + 1
    /\ UNCHANGED <<started, crashed, appVars, favVars, remoteVars,
                   gen, status, mediaRecorderRef, chunksRef, timerIntervalRef, sessions>>

NextRecorder ==
    \/ StartClick
    \/ \E s \in 1..MaxSessions : Grant(s)
    \/ \E s \in 1..MaxSessions : Deny(s)
    \/ StopClick
    \/ \E s \in 1..MaxSessions, size \in {0, 1} : Finalize(s, size)
    \/ \E s \in 1..MaxSessions : LoadEnd(s)
    \/ DiscardClick
    \/ \E s \in 1..MaxSessions : Tick(s)
    \/ ClearAll
    \/ \E tab \in {"search", "favorites"} : SetActiveTab(tab)

SpecRecorder == InitSearch /\ [][NextRecorder]_vars

(***************************************************************************)
(* Claims about the recorder (SpecRecorder).                               *)
(***************************************************************************)

\* steps in which App replaces the mounted recorder by a fresh one
ReplacesRecorder ==
    \/ ClearAll
    \/ \E tab \in {"search", "favorites"} : SetActiveTab(tab)
    \/ \E s \in 1..MaxSessions : LoadEnd(s)

\* a start() of the mounted recorder gets its microphone
StartCompletes == \E s \in 1..MaxSessions : Grant(s) /\ sessions[s].inst = gen

\* C1: within one mount of the recorder, status leaves idle only by a start (to
\* recording), leaves recording only by a stop (to finished) and leaves finished
\* only by a reset (to idle); a start that completes while the recorder is
\* recording or finished changes neither status, elapsed seconds, chunks nor
\* payload.
C1_RecorderTransitionsTotal ==
    [][~ReplacesRecorder =>
          /\ (status = "idle" /\ status' # "idle")
                 => status' = "recording" /\ StartCompletes
          /\ (status = "recording" /\ status' # "recording")
                 => status' = "finished" /\ StopClick
          /\ (status = "finished" /\ status' # "finished")
                 => status' = "idle" /\ DiscardClick
          /\ (StartCompletes /\ status # "idle")
                 => UNCHANGED <<status, timer, chunksRef, audioData>>]_vars

(***************************************************************************)
(* Claims about the search (SpecSearch).                                   *)
(***************************************************************************)
BlankAndNoPayload == Trim(searchText) = <<>> /\ ~audioData.present

\* C2: a search invoked with empty or whitespace-only text and no payload ends in
\* the validation error and calls the remote service not at all: no step taken
\* from such a state raises the call count or puts a request in flight.
C2_BlankSearchMakesNoCall ==
    [][BlankAndNoPayload =>
          /\ remoteCalls' = remoteCalls
          /\ Len(inflight') <= Len(inflight)
          /\ HandleSearch => /\ state'.error = ValidationMsg
                             /\ ~state'.isLoading]_vars

\* the validation error is shown for whitespace-only text, and nothing was called
C2_Witness ==
    /\ state.error = ValidationMsg
    /\ searchText = <<" ">>
    /\ ~audioData.present
    /\ remoteCalls = 0

IsTerminal(st) ==
    /\ ~st.isLoading
    /\ \/ st.error = "null"
       \/ st.error # "null" /\ st.results = <<>>

\* C3: a search that passes validation sets (loading, no error, no results) at
\* once and calls the remote service once; while it is loading SearchState does
\* not change until the call settles; the settling sets one terminal state,
\* (not loading, no error, results) or (not loading, message, no results); and
\* loading holds exactly while one call is pending, so no second terminal update
\* can follow.
C3_LoadingThenOneTerminalUpdate ==
    /\ [](state.isLoading <=> Len(inflight) = 1)
    /\ [](Len(inflight) <= 1)
    /\ [][/\ Len(inflight') > Len(inflight)
              => /\ state' = LoadingState
                 /\ remoteCalls' = remoteCalls + 1
                 /\ Len(inflight') = Len(inflight) + 1
          /\ Len(inflight') < Len(inflight)
              => /\ state = LoadingState
                 /\ IsTerminal(state')
                 /\ remoteCalls' = remoteCalls
          /\ (state.isLoading /\ Len(inflight') = Len(inflight))
              => state' = state]_vars
    /\ (state.isLoading ~> IsTerminal(state))

\* a search has ended with results, after exactly one call
C3_Witness ==
    /\ remoteCalls = 1
    /\ inflight = <<>>
    /\ ~state.isLoading
    /\ state.error = "null"
    /\ Len(state.results) = MaxBatch

IsFailure(r) == r.kind \in {"reject", "nonjson", "empty"}

EndsInError(st) == ~st.isLoading /\ st.error # "null" /\ st.results = <<>>

Throws(r) ==
    \/ r.kind \in {"reject", "nonjson"}
    \/ r.kind = "json" /\ r.value.kind # "array"
    \/ r.kind = "json" /\ r.value.kind = "array"
           /\ \E k \in 1..Len(r.value.items) : r.value.items[k].isNull

C5_ResultIdsDistinct ==
    \A i, j \in 1..Len(state.results) :
        i # j => state.results[i].id # state.results[j].id

\* C6: a successful search puts into SearchState one record per record returned,
\* in the same order, each with its other fields unchanged; an identifier of
\* more than 5 characters is kept, and a missing, empty or shorter one is
\* replaced by a generated identifier that no other record of the results has
\* and the remote service did not send.
C6_NormalizationKeepsLongIds ==
    [][LET b == response'.value.items
       IN (/\ Len(inflight') < Len(inflight)
           /\ response'.kind = "json" /\ response'.value.kind = "array"
           /\ \A k \in 1..Len(b) : ~b[k].isNull)
              => /\ state'.error = "null"
                 /\ Len(state'.results) = Len(b)
                 /\ \A k \in 1..Len(b) :
                        /\ state'.results[k].titulo = b[k].titulo
                        /\ (b[k].hasId /\ Len(b[k].id) >= 6)
                               => state'.results[k].id = b[k].id
                        /\ ~(b[k].hasId /\ Len(b[k].id) >= 6)
                               => /\ state'.results[k].id \notin RawIds
                                  /\ Len(state'.results[k].id) >= 6
                                  /\ \A m \in 1..Len(b) :
                                         m # k => state'.results[m].id # state'.results[k].id]_vars

\* results holding a kept identifier next to a generated one
C6_Witness ==
    /\ response.kind = "json"
    /\ Len(state.results) >= 2
    /\ state.results[1].id = "abcdef"
    /\ state.results[2].id \notin RawIds

\* the template the claim expects for a call of searchMusic: absent text is
\* text that is empty or only whitespace
ExpectedPrompt(text, audioBase64) ==
    IF audioBase64 # <<>> /\ Trim(text) # <<>> THEN "audio+text"
    ELSE IF audioBase64 # <<>> THEN "audio"
    ELSE "text"

\* C11: every call of searchMusic builds one request whose template is the
\* audio+text one when a payload and text are given, the audio-only one when a
\* payload is given and the text is empty or only whitespace, and the text-only
\* one when no payload is given; the request carries an inline audio part
\* exactly when a payload is given.
C11_PromptShapeFollowsInputs ==
    [][Len(inflight') > Len(inflight) =>
          LET r == inflight'[Len(inflight')]
              audioBase64 == AudioBase64(audioData)
          IN /\ Len(inflight') = Len(inflight) + 1
             /\ r.prompt = ExpectedPrompt(searchText, audioBase64)
             /\ r.inline <=> audioBase64 # <<>>]_vars

(***************************************************************************)
(* Further claims about the recorder (SpecRecorder).                       *)
(***************************************************************************)

\* C12: the elapsed seconds are 0 when the recorder enters recording, change
\* while it is recording only by growing by exactly 1, are 0 right after a
\* reset, and are 0 whenever the recorder is idle.
C12_TimerZeroedAndCountsByOne ==
    /\ [](status = "idle" => timer = 0)
    /\ [][/\ (status # "recording" /\ status' = "recording") => timer' = 0
          /\ (status = "recording" /\ status' = "recording")
                 => timer' \in {timer, timer + 1}
          /\ DiscardClick => timer' = 0]_vars

\* session s holds a stream that no stop() can reach any more: it records, and
\* it is not the recorder that the mounted component's mediaRecorderRef holds
Unreleasable(s) ==
    /\ sessions[s].streamOpen
    /\ sessions[s].phase = "recording"
    /\ ~(sessions[s].inst = gen /\ mediaRecorderRef = s)

\* the finalization of the recording that stop() ended has run
FinalizationDone ==
    /\ mediaRecorderRef # 0
    /\ sessions[mediaRecorderRef].phase \in {"encoding", "done"}

\* C13: a stream is opened only by a granted start and closed only by the
\* finalization after a stop; every open stream can still be released by a
\* stop; and the recorder is never finished, its finalization done, while a
\* stream acquired by it is open.
C13_StreamReleasedByFinalization ==
    /\ [](\A s \in 1..MaxSessions : ~Unreleasable(s))
    /\ []((status = "finished" /\ FinalizationDone)
             => \A s \in 1..MaxSessions :
                    sessions[s].inst = gen => ~sessions[s].streamOpen)
    /\ [][\A s \in 1..MaxSessions :
             /\ (~sessions[s].streamOpen /\ sessions'[s].streamOpen)
                    => sessions[s].phase = "pending"
             /\ (sessions[s].streamOpen /\ ~sessions'[s].streamOpen)
                    => sessions[s].phase = "stopping"]_vars

\* getUserMedia has rejected the request of session s: the alert was shown
Denied(s) == sessions[s].phase = "denied"

\* C14: a start whose microphone request is rejected shows the alert and
\* changes nothing else: the status (idle stays idle), the elapsed seconds, the
\* payload, the chunks, the recorder and the intervals are as before, no stream
\* is open for it, and the microphone button works again afterwards.
C14_DeniedStartChangesNothing ==
    /\ [][\A s \in 1..MaxSessions :
             (sessions[s].phase = "pending" /\ Denied(s)')
                 => /\ UNCHANGED <<status, timer, audioData, chunksRef,
                                   mediaRecorderRef, timerIntervalRef, gen>>
                    /\ ~sessions'[s].streamOpen /\ ~sessions'[s].interval
                    /\ \A t \in 1..MaxSessions \ {s} : sessions'[t] = sessions[t]]_vars
    /\ []((/\ \E s \in 1..MaxSessions : Denied(s)
           /\ status = "idle" /\ activeTab = "search" /\ ~crashed
           /\ FreeSessions # {})
             => ENABLED StartClick)

\* a request was rejected and the recorder is recording with a later request
C14_Witness ==
    /\ Denied(1)
    /\ status = "recording" /\ mediaRecorderRef = 2
    /\ sessions[2].phase = "recording" /\ sessions[2].inst = gen

\* the user resets the recorder (Discard), clears everything, or leaves or
\* enters the search tab
ResetAction ==
    \/ DiscardClick
    \/ ClearAll
    \/ \E tab \in {"search", "favorites"} : SetActiveTab(tab)

\* C15: the recorder shown leaves finished only by a reset action, and then it
\* is idle; in particular it never goes from finished to recording.
C15_FinishedLeftOnlyByReset ==
    [][(status = "finished" /\ status' # "finished")
          => status' = "idle" /\ ResetAction]_vars

\* the FileReader of session s finishes: its payload is handed to App
Delivers(s) == sessions[s].phase = "encoding" /\ sessions'[s].phase = "done"

\* session s was stopped by the mounted recorder, which was reset since: within
\* one mount, only clearRecording takes the status from finished to idle while
\* the encoding that stop() started is still running
StoppedBeforeReset(s) ==
    /\ sessions[s].phase \in {"stopping", "encoding"}
    /\ sessions[s].inst = gen
    /\ mediaRecorderRef = s
    /\ status = "idle"

\* C16: a reset leaves App without a payload and the recorder without chunks,
\* and the payload of a recording that was stopped before the reset is not
\* handed to App after it.
C16_ResetPayloadStaysAbsent ==
    [][/\ DiscardClick => (~audioData'.present /\ chunksRef'[gen'] = <<>>)
       /\ \A s \in 1..MaxSessions :
             (StoppedBeforeReset(s) /\ Delivers(s)) => ~audioData'.present]_vars

\* the intervals that were set and not cleared
ActiveTicks == {s \in 1..MaxSessions : sessions[s].interval}

\* C17: whenever the recorder shown is not recording (idle, finished, or not
\* mounted because the favorites tab is open), no interval is active.
C17_NoTickOutsideRecording ==
    (status # "recording" \/ activeTab # "search") => ActiveTicks = {}

\* the capture sessions: an open stream with a MediaRecorder that records
CaptureSessions ==
    {s \in 1..MaxSessions : sessions[s].streamOpen /\ sessions[s].phase = "recording"}

OpenStreams == {s \in 1..MaxSessions : sessions[s].streamOpen}

\* C18: at most one capture session exists at any time, and a start gets its
\* stream only when no stream acquired earlier is still open.
C18_OneCaptureSession ==
    /\ [](Cardinality(CaptureSessions) <= 1)
    /\ [][\A s \in 1..MaxSessions :
             (~sessions[s].streamOpen /\ sessions'[s].streamOpen)
                 => OpenStreams = {}]_vars

\* the payload that the encoding of session s produces
PayloadOf(s) == Payload(Base64String(sessions[s].blob), "audio/webm")

\* C19: whenever the recorder is finished, the recording that stop() ended has
\* been encoded and App holds exactly its payload; every encoding that ends
\* hands its payload to App, once.
C19_FinishedHoldsItsPayload ==
    /\ [](status = "finished"
             => /\ mediaRecorderRef # 0
                /\ sessions[mediaRecorderRef].phase = "done"
                /\ audioData = PayloadOf(mediaRecorderRef))
    /\ [][\A s \in 1..MaxSessions :
             /\ Delivers(s) => audioData' = PayloadOf(s)'
             /\ sessions[s].phase = "done" => sessions'[s].phase = "done"]_vars

(***************************************************************************)
(* Further claims about the search (SpecSearch).                           *)
(***************************************************************************)

\* SearchState gets a full triple: the loading one when a call is made, a
\* terminal one when the call settles, the empty one from clearAll
WholesaleUpdate ==
    \/ Len(inflight') > Len(inflight) /\ state' = LoadingState
    \/ /\ Len(inflight') < Len(inflight)
       /\ state' = TerminalState(SearchMusicResult(response'), uuidCount)
       /\ IsTerminal(state')
    \/ state' = EmptyState /\ searchText' = <<>> /\ ~audioData'.present

\* the one update that keeps fields: the validation error is set and the
\* loading flag and the results stay as they were
ValidationUpdate ==
    /\ FailsValidation(searchText, audioData)
    /\ ~state.isLoading
    /\ state' = [state EXCEPT !.error = ValidationMsg]
    /\ UNCHANGED <<inflight, remoteCalls>>

\* C20 as stated: every change of SearchState sets a full triple (loading,
\* terminal or empty), none keeps fields of the previous state, and an error
\* never stands next to results.
C20_StateReplacedAsAWhole ==
    /\ [](state.error # "null" => state.results = <<>>)
    /\ [][state' # state => WholesaleUpdate]_vars

\* C20 amended: every change of SearchState sets a full triple, except the
\* validation failure, which sets only the error and keeps the results; an
\* error that stands next to results is always the validation message.
C20_WholesaleExceptValidation ==
    /\ []((state.error # "null" /\ state.results # <<>>)
             => state.error = ValidationMsg)
    /\ [][state' # state => (WholesaleUpdate \/ ValidationUpdate)]_vars

\* the validation message is shown above the results of an earlier search
C20_Witness ==
    /\ state.error = ValidationMsg
    /\ Len(state.results) > 0
    /\ remoteCalls >= 1
    /\ BlankAndNoPayload

\* C21: SearchState never has an error message while its loading flag is set.
C21_NoErrorWhileLoading == ~(state.error # "null" /\ state.isLoading)

\* a second search went through loading and has ended with the error of a
\* rejected call
C21_Witness ==
    /\ remoteCalls = 2
    /\ inflight = <<>>
    /\ response.kind = "reject"
    /\ state.error = FailMsg
    /\ ~state.isLoading

\* C22: at most one request is pending at any time; a pending request is
\* neither replaced nor dropped: it leaves only when the call settles, and what
\* it settled with is what SearchState then shows; and every pending request
\* does settle.
C22_OneRequestRunsToTheEnd ==
    /\ [](Len(inflight) <= 1)
    /\ [][/\ (inflight # <<>> /\ inflight' # <<>>) => inflight' = inflight
          /\ (inflight # <<>> /\ inflight' = <<>>)
                 => /\ response' \in Responses
                    /\ state' = TerminalState(SearchMusicResult(response'), uuidCount)]_vars
    /\ (inflight # <<>> ~> inflight = <<>>)

\* the second request of the session is pending alone, the first has settled
C22_Witness ==
    /\ remoteCalls = 2
    /\ Len(inflight) = 1
    /\ state = LoadingState

(***************************************************************************)
(* The recorder together with the textarea: what the user can do on the    *)
(* search tab without searching.                                           *)
(***************************************************************************)
NextTyping ==
    \/ \E t \in Texts : SetSearchText(t)
    \/ StartClick
    \/ \E s \in 1..MaxSessions : Grant(s)
    \/ \E s \in 1..MaxSessions : Deny(s)
    \/ StopClick
    \/ \E s \in 1..MaxSessions, size \in {0, 1} : Finalize(s, size)
    \/ \E s \in 1..MaxSessions : LoadEnd(s)
    \/ DiscardClick
    \/ \E s \in 1..MaxSessions : Tick(s)
    \/ ClearAll
    \/ \E tab \in {"search", "favorites"} : SetActiveTab(tab)

SpecTyping == InitSearch /\ [][NextTyping]_vars

\* C23: Clear All leaves the text empty, no payload, the empty SearchState and
\* a fresh recorder: idle, 0 seconds, no chunks, whatever the recorder was
\* doing before.
C23_ClearAllResetsEverything ==
    [][ClearAll => /\ searchText' = <<>>
                   /\ ~audioData'.present
                   /\ state' = EmptyState
                   /\ status' = "idle"
                   /\ timer' = 0
                   /\ chunksRef'[gen'] = <<>>]_vars

\* C24: while the recorder shown is recording App holds no payload, and while
\* App holds a payload the recorder shown is finished (handleSearch sends
\* whatever payload App holds, so this is what keeps stale audio out of a
\* search).
C24_PayloadOnlyWhileFinished ==
    activeTab = "search" =>
        /\ status = "recording" => ~audioData.present
        /\ audioData.present => status = "finished"

\* request r asks the remote service to match a description that is empty or
\* only whitespace, with no audio
BlankTextOnly(r) == r.prompt = "text" /\ ~r.inline /\ Trim(r.text) = <<>>

\* C25: no request with the text-only prompt and blank text is ever made; a
\* search with blank text and a payload whose base64 string is empty fails
\* validation and makes no call.
C25_NoBlankTextOnlyRequest ==
    /\ [](\A i \in 1..Len(inflight) : ~BlankTextOnly(inflight[i]))
    /\ [][(/\ Trim(searchText) = <<>>
           /\ AudioBase64(audioData) = <<>>
           /\ ~state.isLoading
           /\ state' # state)
             => (state'.error = ValidationMsg /\ UNCHANGED <<inflight, remoteCalls>>)
                \/ state' = EmptyState]_vars

====
